---- MODULE Spec2Model ----
(***************************************************************************)
(* A model of git-diff-analyzer (src/src/main.rs): the path filter, the    *)
(* diff filter, the token estimator, the budget truncator and the          *)
(* primary/fallback request protocol of the two analysis functions.        *)
(*                                                                         *)
(* A Rust char is modelled by its Unicode scalar value and a &str/String   *)
(* by the sequence of its chars, so that character classes ('가'..='힣',   *)
(* whitespace), line splitting and substring search are computed, not      *)
(* assumed.                                                                *)
(***************************************************************************)
EXTENDS Integers, Sequences, FiniteSets, TLC

VARIABLES
  fn,                \* the function this run calls
  args,              \* its arguments
  ret,               \* what it returned, Pending until it has
  overflow_checks,   \* the build profile: TRUE panics on usize overflow, FALSE wraps
  pc,                \* analyze_*_with_openai: where the function is
  analysis_content,  \* analyze_*_with_openai: the local of that name
  request,           \* analyze_*_with_openai: the OpenAIRequest being sent
  sent,              \* every request handed to the client, in order
  response,          \* the reply to the primary request
  fallback_response, \* the reply to the fallback request
  error_text         \* analyze_*_with_openai: the local of that name

vars == <<fn, args, ret, overflow_checks, pc, analysis_content, request, sent,
          response, fallback_response, error_text>>

orch_vars == <<pc, analysis_content, request, sent, response, fallback_response,
               error_text>>

\* What a call has returned: nothing yet, a value, or a panic.
Pending == [tag |-> "pending"]
Value(v) == [tag |-> "value", value |-> v]
Panic == [tag |-> "panic"]

\* A request or reply slot that holds nothing.
Idle == [at |-> "idle"]

----------------------------------------------------------------------------
(* Characters and strings *)

\* The printable ASCII characters U+0020..U+005F and U+0061..U+007E, in order.
PrintableLow ==
  " !\"#$%&'()*+,-./0123456789:;<=>?@ABCDEFGHIJKLMNOPQRSTUVWXYZ[\\]^_"

PrintableHigh == "abcdefghijklmnopqrstuvwxyz{|}~"

\* The scalar values of the ASCII characters, each given as a one-character
\* string: tab, LF, CR and the printable ones.
OrdTable ==
  [c \in {"\t", "\n", "\r"}
          \cup {SubSeq(PrintableLow, i, i) : i \in 1..Len(PrintableLow)}
          \cup {SubSeq(PrintableHigh, i, i) : i \in 1..Len(PrintableHigh)} |->
     IF c = "\t" THEN 9
     ELSE IF c = "\n" THEN 10
     ELSE IF c = "\r" THEN 13
     ELSE IF \E i \in 1..Len(PrintableLow) : SubSeq(PrintableLow, i, i) = c
     THEN 31 + (CHOOSE i \in 1..Len(PrintableLow) : SubSeq(PrintableLow, i, i) = c)
     ELSE 96 + (CHOOSE i \in 1..Len(PrintableHigh) : SubSeq(PrintableHigh, i, i) = c)]

\* The scalar value of an ASCII character given as a one-character string.
Ord(c) == OrdTable[c]

\* An ASCII string literal as a sequence of chars.
Str(s) == [i \in 1..Len(s) |-> Ord(SubSeq(s, i, i))]

LF == Ord("\n")
CR == Ord("\r")

\* The elements of a finite set of integers in increasing order.
Sorted(S) ==
  [k \in 1..Cardinality(S) |-> CHOOSE i \in S : Cardinality({j \in S : j < i}) = k - 1]

\* str::starts_with, str::ends_with, str::contains with a &str pattern.
starts_with(s, pat) ==
  Len(pat) <= Len(s) /\ SubSeq(s, 1, Len(pat)) = pat

ends_with(s, pat) ==
  Len(pat) <= Len(s) /\ SubSeq(s, Len(s) - Len(pat) + 1, Len(s)) = pat

contains(s, pat) ==
  \E i \in 0..(Len(s) - Len(pat)) : SubSeq(s, i + 1, i + Len(pat)) = pat

\* str::lines: split at LF; the LF of a line and one CR before it are not part
\* of the line; what follows the last LF is a line only when it is not empty.
lines(s) ==
  LET nl == Sorted({i \in 1..Len(s) : s[i] = LF})
      n == Len(nl)
      start(k) == IF k = 1 THEN 1 ELSE nl[k - 1] + 1
      strip_cr(t) ==
        IF Len(t) > 0 /\ t[Len(t)] = CR THEN SubSeq(t, 1, Len(t) - 1) ELSE t
      terminated == [k \in 1..n |-> strip_cr(SubSeq(s, start(k), nl[k] - 1))]
  IN  IF start(n + 1) <= Len(s)
      THEN Append(terminated, SubSeq(s, start(n + 1), Len(s)))
      ELSE terminated

\* [&str]::join
RECURSIVE join(_, _)
join(v, sep) ==
  IF v = <<>> THEN <<>>
  ELSE IF Len(v) = 1 THEN v[1]
  ELSE v[1] \o sep \o join(Tail(v), sep)

\* char::is_whitespace: the White_Space code points.
is_whitespace(c) ==
  \/ c \in 9..13
  \/ c \in {32, 133, 160, 5760, 8232, 8233, 8239, 8287, 12288}
  \/ c \in 8192..8202

\* str::split_whitespace, collected: the maximal runs of non-whitespace chars.
split_whitespace(s) ==
  LET first == Sorted({i \in 1..Len(s) :
                         ~is_whitespace(s[i]) /\ (i = 1 \/ is_whitespace(s[i - 1]))})
      last(i) == CHOOSE j \in i..Len(s) :
                   /\ \A k \in i..j : ~is_whitespace(s[k])
                   /\ (j = Len(s) \/ is_whitespace(s[j + 1]))
  IN  [k \in 1..Len(first) |-> SubSeq(s, first[k], last(first[k]))]

\* str::trim_start_matches: the prefix is removed as often as it matches.
RECURSIVE trim_start_matches(_, _)
trim_start_matches(s, pat) ==
  IF pat # <<>> /\ starts_with(s, pat)
  THEN trim_start_matches(SubSeq(s, Len(pat) + 1, Len(s)), pat)
  ELSE s

----------------------------------------------------------------------------
(* should_skip_file *)

skip_patterns == <<
  Str("package-lock.json"), Str("yarn.lock"), Str("pnpm-lock.yaml"),
  Str("composer.lock"), Str("Gemfile.lock"), Str("poetry.lock"),
  Str("Pipfile.lock"), Str("go.sum"),
  Str(".min.js"), Str(".min.css"), Str(".bundle.js"), Str(".bundle.css"),
  Str("dist/"), Str("build/"), Str("output/"), Str("out/"),
  Str("CHANGELOG.md"),
  Str(".vscode/"), Str(".idea/"),
  Str(".DS_Store"), Str("Thumbs.db"),
  Str(".json.map"), Str(".js.map"), Str(".css.map") >>

\* A plausible slip: only the suffix test is kept.
should_skip_file_suffix_only(file_path) ==
  \E k \in DOMAIN skip_patterns : ends_with(file_path, skip_patterns[k])

should_skip_file(file_path) ==
  \E k \in DOMAIN skip_patterns :
    contains(file_path, skip_patterns[k]) \/ ends_with(file_path, skip_patterns[k])

----------------------------------------------------------------------------
(* filter_large_generated_files *)

\* The loop's variables before the first line.
\* A plausible slip: the flag starts set, so the lines before the first
\* boundary are dropped.
filter_start_skipping ==
  [skip_file |-> TRUE, current_file |-> <<>>, filtered_lines |-> <<>>]

filter_start ==
  [skip_file |-> FALSE, current_file |-> <<>>, filtered_lines |-> <<>>]

\* A plausible slip: the section is judged by current_file as it was before
\* this boundary line, that is by the previous section's path.
filter_step_stale_path(st, line) ==
  IF starts_with(line, Str("diff --git"))
  THEN LET fields == split_whitespace(line)
       IN  IF Len(fields) >= 4
           THEN LET file_path == trim_start_matches(fields[4], Str("b/"))
                IN  IF should_skip_file(st.current_file)
                    THEN [skip_file |-> TRUE, current_file |-> file_path,
                          filtered_lines |-> st.filtered_lines]
                    ELSE [skip_file |-> FALSE, current_file |-> file_path,
                          filtered_lines |-> Append(st.filtered_lines, line)]
           ELSE [st EXCEPT !.skip_file = FALSE,
                           !.filtered_lines = Append(@, line)]
  ELSE IF ~st.skip_file
       THEN [st EXCEPT !.filtered_lines = Append(@, line)]
       ELSE st

\* A plausible slip: a new boundary line does not clear the flag, so once a
\* section is excluded every later section is dropped with it.
filter_step_sticky_skip(st, line) ==
  IF starts_with(line, Str("diff --git"))
  THEN LET fields == split_whitespace(line)
       IN  IF Len(fields) >= 4
           THEN LET file_path == trim_start_matches(fields[4], Str("b/"))
                IN  IF should_skip_file(file_path)
                    THEN [skip_file |-> TRUE, current_file |-> file_path,
                          filtered_lines |-> st.filtered_lines]
                    ELSE [skip_file |-> st.skip_file, current_file |-> file_path,
                          filtered_lines |->
                            IF st.skip_file THEN st.filtered_lines
                            ELSE Append(st.filtered_lines, line)]
           ELSE IF st.skip_file THEN st
                ELSE [st EXCEPT !.filtered_lines = Append(@, line)]
  ELSE IF ~st.skip_file
       THEN [st EXCEPT !.filtered_lines = Append(@, line)]
       ELSE st

\* One iteration of the loop over the lines.
filter_step(st, line) ==
  IF starts_with(line, Str("diff --git"))
  THEN LET fields == split_whitespace(line)
       IN  IF Len(fields) >= 4
           THEN LET file_path == trim_start_matches(fields[4], Str("b/"))
                IN  IF should_skip_file(file_path)
                    THEN \* skip_file = true; continue
                         [skip_file |-> TRUE, current_file |-> file_path,
                          filtered_lines |-> st.filtered_lines]
                    ELSE [skip_file |-> FALSE, current_file |-> file_path,
                          filtered_lines |-> Append(st.filtered_lines, line)]
           ELSE \* nth(3) is None: the flag is cleared and the line is kept
                [st EXCEPT !.skip_file = FALSE,
                           !.filtered_lines = Append(@, line)]
  ELSE IF ~st.skip_file
       THEN [st EXCEPT !.filtered_lines = Append(@, line)]
       ELSE st

RECURSIVE filter_loop(_, _, _)
filter_loop(st, ls, i) ==
  IF i > Len(ls) THEN st ELSE filter_loop(filter_step(st, ls[i]), ls, i + 1)

filter_large_generated_files(diff_content) ==
  join(filter_loop(filter_start, lines(diff_content), 1).filtered_lines, <<LF>>)

----------------------------------------------------------------------------
(* estimate_tokens *)

\* c >= U+AC00 && c <= U+D7A3
is_korean(c) == c >= 44032 /\ c <= 55203

\* A plausible slip: the other chars are rounded up instead of down.
estimate_tokens_rounding_up(text) ==
  LET korean_chars == Cardinality({i \in DOMAIN text : is_korean(text[i])})
      other_chars == Len(text) - korean_chars
  IN  korean_chars + ((other_chars + 3) \div 4)

estimate_tokens(text) ==
  LET korean_chars == Cardinality({i \in DOMAIN text : is_korean(text[i])})
      other_chars == Len(text) - korean_chars
  IN  korean_chars + (other_chars \div 4)

----------------------------------------------------------------------------
(* smart_summarize_diff *)

\* format!("{}", n) of a usize
RECURSIVE to_string(_)
to_string(n) ==
  IF n < 10 THEN <<48 + n>> ELSE to_string(n \div 10) \o <<48 + (n % 10)>>

\* str::starts_with with a char pattern
starts_with_char(s, c) == Len(s) > 0 /\ s[1] = c

\* summary after the statistics are pushed: two Korean words of 2 chars in the
\* first line, words of 2, 1 and 2 chars in the second, then an empty line.
stats_header(diff_content) ==
  LET ls == lines(diff_content)
      added_lines == Cardinality({i \in DOMAIN ls : starts_with_char(ls[i], Ord("+"))})
      removed_lines == Cardinality({i \in DOMAIN ls : starts_with_char(ls[i], Ord("-"))})
      modified_files == Cardinality({i \in DOMAIN ls : starts_with(ls[i], Str("diff "))})
  IN  Str("=== ") \o <<53685, 44228>> \o Str(" ===\n")
        \o <<54028, 51068>> \o Str(" ") \o to_string(modified_files) \o <<44060>>
        \o Str(", +") \o to_string(added_lines)
        \o Str(" -") \o to_string(removed_lines)
        \o Str(" ") \o <<46972, 51064>> \o Str("\n\n")

\* The line pushed when a line does not fit: 13 Korean chars in 5 words.
truncation_marker ==
  Str("... (") \o <<53664, 53360>> \o Str(" ") \o <<51228, 54620, 51004, 47196>>
    \o Str(" ") \o <<45208, 47672, 51648>> \o Str(" ") \o <<45236, 50857>>
    \o Str(" ") \o <<49373, 47029>> \o Str(")\n")

\* max_tokens - stats_tokens on usize. With overflow checks a negative
\* difference panics. Without them it wraps to 2^64 plus the difference, which
\* is kept here as the negative difference itself: see fits.
available_tokens(max_tokens, stats_tokens) ==
  IF max_tokens < stats_tokens /\ overflow_checks
  THEN Panic
  ELSE Value(max_tokens - stats_tokens)

\* estimate < available_tokens. An available below 0 stands for 2^64 plus it,
\* which is above the estimate of every string (a string has less than 2^63
\* chars and the header estimate is far below 2^63).
fits(estimate, available) ==
  IF available < 0 THEN TRUE ELSE estimate < available

\* A plausible slip: the break is missing, so the loop goes on after the
\* marker.
RECURSIVE summarize_loop_no_break(_, _, _, _)
summarize_loop_no_break(ls, i, truncated_content, available) ==
  IF i > Len(ls) THEN truncated_content
  ELSE LET line_with_newline == ls[i] \o <<LF>>
       IN  IF fits(estimate_tokens(truncated_content \o line_with_newline), available)
           THEN summarize_loop_no_break(ls, i + 1, truncated_content \o line_with_newline,
                                        available)
           ELSE summarize_loop_no_break(ls, i + 1, truncated_content \o truncation_marker,
                                        available)

\* The loop over the lines: truncated_content when it ends.
RECURSIVE summarize_loop(_, _, _, _)
summarize_loop(ls, i, truncated_content, available) ==
  IF i > Len(ls) THEN truncated_content
  ELSE LET line_with_newline == ls[i] \o <<LF>>
       IN  IF fits(estimate_tokens(truncated_content \o line_with_newline), available)
           THEN summarize_loop(ls, i + 1, truncated_content \o line_with_newline, available)
           ELSE truncated_content \o truncation_marker

\* Value(the summary), or Panic.
smart_summarize_diff(diff_content, max_tokens) ==
  LET summary == stats_header(diff_content)
      stats_tokens == estimate_tokens(summary)
      available == available_tokens(max_tokens, stats_tokens)
  IN  IF available = Panic THEN Panic
      ELSE Value(summary \o summarize_loop(lines(diff_content), 1, <<>>, available.value))

----------------------------------------------------------------------------
(* analyze_diff_with_openai and analyze_commit_with_openai: the two functions
   differ in the words of their prompt template and in nothing else, so fn
   says which of them runs and every step below is a step of both. *)

AnalyzeFns == {"analyze_diff_with_openai", "analyze_commit_with_openai"}

prompt_base_tokens == 800
max_content_tokens == 120000 - prompt_base_tokens - 4000

\* format!(template, labels.., content): the fixed template of the function
\* around the content.
prompt(f, content) == [template |-> f, content |-> content]

\* The Result the function returns.
Ok(text) == [tag |-> "Ok", value |-> text]
\* Err(anyhow!(..)) with its message
Err(message) == [tag |-> "Err", message |-> message]
\* an error of reqwest passed on by the ? operator
ErrReqwest == [tag |-> "Err", from |-> "reqwest"]

\* "OpenAI API <request failed>: {error_text}"
request_failed(text) ==
  Str("OpenAI API ") \o <<50836, 52397>> \o Str(" ") \o <<49892, 54056>> \o Str(": ")
    \o text

\* "OpenAI API<from> <response> <not received>"
no_response ==
  Str("OpenAI API") \o <<50640, 49436>> \o Str(" ") \o <<51025, 45813, 51012>>
    \o Str(" ") \o <<48155, 51648>> \o Str(" ")
    \o <<47803, 54664, 49845, 45768, 45796>>

\* A plausible slip: every HTTP error is taken for a size rejection.
is_size_rejection_any_error(text) == TRUE

\* The test that sends the function to its fallback.
is_size_rejection(text) ==
  \/ contains(text, Str("context_length_exceeded"))
  \/ contains(text, Str("maximum context length"))

\* A plausible slip: the body of the failed request is dropped from the error.
primary_failure_no_body(text) == Err(request_failed(<<>>))

\* What a primary HTTP error that is no size rejection returns.
primary_failure(text) == Err(request_failed(text))

\* A plausible slip: a diff exactly at the budget is summarized too.
primary_content_from_budget(diff_content) ==
  IF estimate_tokens(diff_content) >= max_content_tokens
  THEN smart_summarize_diff(diff_content, max_content_tokens)
  ELSE Value(diff_content)

\* analysis_content: the diff, or its summary when it is over the budget.
primary_content(diff_content) ==
  IF estimate_tokens(diff_content) > max_content_tokens
  THEN smart_summarize_diff(diff_content, max_content_tokens)
  ELSE Value(diff_content)

\* A plausible slip: the content is tested against the budget it is summarized
\* with.
fallback_content_one_ceiling(content) ==
  IF estimate_tokens(content) > 6000
  THEN smart_summarize_diff(content, 6000)
  ELSE Value(content)

\* fallback_content
fallback_content(content) ==
  IF estimate_tokens(content) > 8000
  THEN smart_summarize_diff(content, 6000)
  ELSE Value(content)

\* Up to the first .send(): the content, the prompt, the request.
SendPrimary ==
  /\ fn \in AnalyzeFns
  /\ pc = "start"
  /\ LET content == primary_content(args.diff_content)
     IN  IF content = Panic
         THEN /\ ret' = Panic
              /\ pc' = "done"
              /\ UNCHANGED <<analysis_content, request, sent>>
         ELSE LET req == [model |-> Str("gpt-4-turbo"),
                          messages |-> <<[role |-> Str("user"),
                                          content |-> prompt(fn, content.value)]>>,
                          max_tokens |-> 4000]
              IN  /\ analysis_content' = content.value
                  /\ request' = req
                  /\ sent' = Append(sent, req)
                  /\ pc' = "await_primary"
                  /\ ret' = ret
  /\ UNCHANGED <<fn, args, overflow_checks, response, fallback_response, error_text>>

\* What the client can answer: the send fails; a success status with a body
\* that is the JSON of some choices, or is not; an error status with a body
\* that can be read, or cannot.
ChoiceLists ==
  { <<>>,
    <<[message |-> [content |-> Str("R1")]]>>,
    <<[message |-> [content |-> Str("R2")]], [message |-> [content |-> Str("R1")]]>> }

ErrorBodies ==
  { Str("code: context_length_exceeded"),
    Str("maximum context length is 8192"),
    Str("Context_Length_Exceeded"),
    Str("invalid_api_key"),
    Str("rate_limit_exceeded"),
    <<>> }

Replies ==
  {[kind |-> "send_failed"], [kind |-> "success_bad_json"], [kind |-> "error_unreadable"]}
    \cup {[kind |-> "success", choices |-> c] : c \in ChoiceLists}
    \cup {[kind |-> "error", text |-> t] : t \in ErrorBodies}

Return(result) ==
  /\ ret' = result
  /\ pc' = "done"

\* .send().await? fails, response.json().await? fails or
\* response.text().await? fails: the ? operator returns the error.
PrimaryTransportError ==
  /\ pc = "await_primary"
  /\ \E r \in Replies :
       /\ r.kind \in {"send_failed", "success_bad_json", "error_unreadable"}
       /\ response' = r
  /\ Return(ErrReqwest)
  /\ UNCHANGED <<fn, args, overflow_checks, analysis_content, request, sent,
                 fallback_response, error_text>>

\* response.status().is_success()
PrimarySuccess ==
  /\ pc = "await_primary"
  /\ \E r \in Replies :
       /\ r.kind = "success"
       /\ response' = r
       /\ IF r.choices # <<>>
          THEN Return(Ok(r.choices[1].message.content))
          ELSE Return(Err(no_response))
  /\ UNCHANGED <<fn, args, overflow_checks, analysis_content, request, sent,
                 fallback_response, error_text>>

\* An error status whose body is no size rejection.
PrimaryError ==
  /\ pc = "await_primary"
  /\ \E r \in Replies :
       /\ r.kind = "error"
       /\ ~is_size_rejection(r.text)
       /\ response' = r
       /\ error_text' = r.text
       /\ Return(primary_failure(r.text))
  /\ UNCHANGED <<fn, args, overflow_checks, analysis_content, request, sent,
                 fallback_response>>

\* An error status whose body is a size rejection: the request is changed in
\* place and sent again.
PrimarySizeRejected ==
  /\ pc = "await_primary"
  /\ \E r \in Replies :
       /\ r.kind = "error"
       /\ is_size_rejection(r.text)
       /\ response' = r
       /\ error_text' = r.text
  /\ LET content == fallback_content(analysis_content)
     IN  IF content = Panic
         THEN /\ Return(Panic)
              /\ UNCHANGED <<request, sent>>
         ELSE LET req == [request EXCEPT
                            !.model = Str("gpt-3.5-turbo"),
                            !.messages[1].content = prompt(fn, content.value),
                            !.max_tokens = 2000]
              IN  /\ request' = req
                  /\ sent' = Append(sent, req)
                  /\ pc' = "await_fallback"
                  /\ ret' = ret
  /\ UNCHANGED <<fn, args, overflow_checks, analysis_content, fallback_response>>

\* The fallback .send().await? or fallback_response.json().await? fails.
FallbackTransportError ==
  /\ pc = "await_fallback"
  /\ \E r \in Replies :
       /\ r.kind \in {"send_failed", "success_bad_json"}
       /\ fallback_response' = r
  /\ Return(ErrReqwest)
  /\ UNCHANGED <<fn, args, overflow_checks, analysis_content, request, sent,
                 response, error_text>>

\* The fallback reply has a success status and at least one choice.
FallbackSuccess ==
  /\ pc = "await_fallback"
  /\ \E r \in Replies :
       /\ r.kind = "success"
       /\ r.choices # <<>>
       /\ fallback_response' = r
       /\ Return(Ok(r.choices[1].message.content))
  /\ UNCHANGED <<fn, args, overflow_checks, analysis_content, request, sent,
                 response, error_text>>

\* Every other fallback reply, an error status (its body is never read) or a
\* success without choices, falls out of the block to the return of the
\* primary error.
FallbackFallsThrough ==
  /\ pc = "await_fallback"
  /\ \E r \in Replies :
       /\ \/ r.kind \in {"error", "error_unreadable"}
          \/ r.kind = "success" /\ r.choices = <<>>
       /\ fallback_response' = r
  /\ Return(Err(request_failed(error_text)))
  /\ UNCHANGED <<fn, args, overflow_checks, analysis_content, request, sent,
                 response, error_text>>

\* A line of n Hangul syllables: its estimate is n.
Syllables(n) == [i \in 1..n |-> 44032]

\* An added line, then a line that brings the estimate to max_content_tokens
\* exactly.
AtContentBudget == Str("+a\n") \o Syllables(max_content_tokens)

\* An added line, a line that alone is as large as max_content_tokens, and a
\* short last line: the estimate is max_content_tokens + 2.
OverContentBudget ==
  Str("+a\n") \o Syllables(max_content_tokens - 1) \o <<LF>> \o Syllables(2) \o <<LF>>

\* An added line, then a line that brings the estimate to 8000 exactly.
AtFallbackThreshold == Str("+a\n") \o Syllables(8000)

\* An added line, a line of 7000 and a line of 1001: the estimate is 8002.
OverFallbackThreshold ==
  Str("+a\n") \o Syllables(7000) \o <<LF>> \o Syllables(1001) \o <<LF>>

\* The diffs the functions are called with.
AnalyzeInputs ==
  { Str("diff --git a/src/app.js b/src/app.js\n+a\n"),
    Str("+a\n"),
    AtFallbackThreshold,
    OverFallbackThreshold,
    AtContentBudget,
    OverContentBudget }

Init ==
  /\ fn \in AnalyzeFns
  /\ args \in {[diff_content |-> d] : d \in AnalyzeInputs}
  /\ ret = Pending
  /\ overflow_checks \in BOOLEAN
  /\ pc = "start"
  /\ analysis_content = <<>>
  /\ request = Idle
  /\ sent = <<>>
  /\ response = Idle
  /\ fallback_response = Idle
  /\ error_text = <<>>

Next ==
  \/ SendPrimary
  \/ PrimaryTransportError
  \/ PrimarySuccess
  \/ PrimaryError
  \/ PrimarySizeRejected
  \/ FallbackTransportError
  \/ FallbackSuccess
  \/ FallbackFallsThrough

Spec == Init /\ [][Next]_vars

----------------------------------------------------------------------------
(* Calls of the pure functions *)

\* The texts of up to n lines of Lines, every line ended by eol.
RECURSIVE Terminated(_, _, _)
Terminated(Lines, n, eol) ==
  IF n = 0 THEN {<<>>}
  ELSE {<<>>} \cup {l \o eol \o t : l \in Lines, t \in Terminated(Lines, n - 1, eol)}

\* The texts of up to n lines whose last line is not empty and has no eol.
Unterminated(Lines, n, eol) ==
  IF n = 0 THEN {}
  ELSE {t \o l : t \in Terminated(Lines, n - 1, eol), l \in Lines \ {<<>>}}

TextsOf(Lines, n) ==
  UNION {Terminated(Lines, n, eol) \cup Unterminated(Lines, n, eol) :
           eol \in {<<LF>>, <<CR, LF>>}}


\* The paths should_skip_file is called with: up to MaxPieces pieces.
MaxPieces == 3

PathPieces ==
  { "src/", "dist/", "Dist/", "layout/", "app.js", "a.min.js", "go.sum",
    "GO.SUM", "b/", "x" }

RECURSIVE PathsOf(_)
PathsOf(n) ==
  IF n = 0 THEN {""}
  ELSE LET shorter == PathsOf(n - 1)
       IN  shorter \cup {p \o q : p \in shorter, q \in PathPieces}

InitSkip ==
  /\ fn = "should_skip_file"
  /\ args \in {[file_path |-> Str(p)] : p \in PathsOf(MaxPieces)}
  /\ ret = Pending
  /\ overflow_checks = FALSE
  /\ pc = "unused"
  /\ analysis_content = <<>>
  /\ request = Idle
  /\ sent = <<>>
  /\ response = Idle
  /\ fallback_response = Idle
  /\ error_text = <<>>

CallShouldSkipFile ==
  /\ fn = "should_skip_file"
  /\ ret = Pending
  /\ ret' = Value(should_skip_file(args.file_path))
  /\ UNCHANGED <<fn, args, overflow_checks>>
  /\ UNCHANGED orch_vars

NextSkip == CallShouldSkipFile

SpecSkip == InitSkip /\ [][NextSkip]_vars

----------------------------------------------------------------------------
(* Calls of filter_large_generated_files *)

\* The diffs it is called with: up to MaxFilterLines lines of FilterLines, ended
\* by LF or by CR LF, the last line with or without its line ending.
MaxFilterLines == 3

FilterLines ==
  { Str(l) : l \in
    { "", "+a",
      "diff --git a/package-lock.json b/package-lock.json",
      "diff --git a/src/app.js b/src/app.js",
      "diff --git a/dist/x b/x",
      "diff --git" } }

InitFilter ==
  /\ fn = "filter_large_generated_files"
  /\ args \in {[diff_content |-> d] : d \in TextsOf(FilterLines, MaxFilterLines)}
  /\ ret = Pending
  /\ overflow_checks = FALSE
  /\ pc = "unused"
  /\ analysis_content = <<>>
  /\ request = Idle
  /\ sent = <<>>
  /\ response = Idle
  /\ fallback_response = Idle
  /\ error_text = <<>>

CallFilter ==
  /\ fn = "filter_large_generated_files"
  /\ ret = Pending
  /\ ret' = Value(filter_large_generated_files(args.diff_content))
  /\ UNCHANGED <<fn, args, overflow_checks>>
  /\ UNCHANGED orch_vars

NextFilter == CallFilter

SpecFilter == InitFilter /\ [][NextFilter]_vars

Filtered == fn = "filter_large_generated_files" /\ ret # Pending

BoundaryPrefix == Str("diff --git")

IsBoundary(line) == starts_with(line, BoundaryPrefix)

NoBoundary(d) == \A i \in DOMAIN lines(d) : ~IsBoundary(lines(d)[i])

HasCR(s) == \E i \in DOMAIN s : s[i] = CR

EndsWithLF(s) == Len(s) > 0 /\ s[Len(s)] = LF

----------------------------------------------------------------------------
(* Calls of smart_summarize_diff *)

\* The diffs it is called with: up to MaxSummaryLines lines of SummaryLines,
\* and ManyAdded; the budgets: 0..MaxBudget.
MaxSummaryLines == 3
MaxBudget == 18

\* An empty line, an added line, a file line, a removed line of Korean text.
SummaryLines ==
  { <<>>, Str("+a"), Str("diff x"), Str("-") \o <<44032, 55203>> }

\* Ten added lines: the header counts take four digits instead of three.
ManyAdded == [i \in 1..30 |-> Str("+a\n")[((i - 1) % 3) + 1]]

\* One line of twenty Hangul syllables, without a line ending.
LongLine == [i \in 1..20 |-> 44032]

\* Fifty-five empty lines ended by CR LF.
ManyCRLF == [i \in 1..110 |-> IF i % 2 = 1 THEN CR ELSE LF]

SummaryInputs ==
  Terminated(SummaryLines, MaxSummaryLines, <<LF>>)
    \cup Unterminated(SummaryLines, MaxSummaryLines, <<LF>>)
    \cup Terminated(SummaryLines, MaxSummaryLines, <<CR, LF>>)
    \cup {ManyAdded, LongLine}

\* A call whose budget is one below the estimate of the diff.
JustOverBudget(d) == [diff_content |-> d, max_tokens |-> estimate_tokens(d) - 1]

InitSummarize ==
  /\ fn = "smart_summarize_diff"
  /\ args \in {[diff_content |-> d, max_tokens |-> b] :
                 d \in SummaryInputs, b \in 0..MaxBudget}
               \cup {JustOverBudget(ManyCRLF)}
  /\ ret = Pending
  /\ overflow_checks \in BOOLEAN
  /\ pc = "unused"
  /\ analysis_content = <<>>
  /\ request = Idle
  /\ sent = <<>>
  /\ response = Idle
  /\ fallback_response = Idle
  /\ error_text = <<>>

CallSummarize ==
  /\ fn = "smart_summarize_diff"
  /\ ret = Pending
  /\ ret' = smart_summarize_diff(args.diff_content, args.max_tokens)
  /\ UNCHANGED <<fn, args, overflow_checks>>
  /\ UNCHANGED orch_vars

NextSummarize == CallSummarize

SpecSummarize == InitSummarize /\ [][NextSummarize]_vars

Summarized == fn = "smart_summarize_diff" /\ ret # Pending

HeaderEstimate == estimate_tokens(stats_header(args.diff_content))

----------------------------------------------------------------------------
(* Calls of estimate_tokens *)

\* The texts it is called with: up to MaxTextLen chars of TextChars.
MaxTextLen == 5

\* The first and the last Hangul syllable, the char before the first and the
\* char after the last, an ASCII letter, a char outside the basic plane.
TextChars == {44032, 55203, 44031, 55204, 97, 128512}

EstimateInputs == UNION {[1..n -> TextChars] : n \in 0..MaxTextLen}

InitEstimate ==
  /\ fn = "estimate_tokens"
  /\ args \in {[text |-> t] : t \in EstimateInputs}
  /\ ret = Pending
  /\ overflow_checks \in BOOLEAN
  /\ pc = "unused"
  /\ analysis_content = <<>>
  /\ request = Idle
  /\ sent = <<>>
  /\ response = Idle
  /\ fallback_response = Idle
  /\ error_text = <<>>

CallEstimate ==
  /\ fn = "estimate_tokens"
  /\ ret = Pending
  /\ ret' = Value(estimate_tokens(args.text))
  /\ UNCHANGED <<fn, args, overflow_checks>>
  /\ UNCHANGED orch_vars

NextEstimate == CallEstimate

SpecEstimate == InitEstimate /\ [][NextEstimate]_vars

Estimated == fn = "estimate_tokens" /\ ret # Pending

----------------------------------------------------------------------------
(* What the claims speak of *)

\* pat occurs in s: at some position the chars of s are those of pat, one by
\* one. An empty pat occurs in every s.
Occurs(pat, s) ==
  \E i \in 1..(Len(s) + 1) :
    /\ i + Len(pat) - 1 <= Len(s)
    /\ \A k \in 1..Len(pat) : s[i + k - 1] = pat[k]

Analyzing == fn \in AnalyzeFns

\* The body of an HTTP error names one of the two size-limit phrases.
SizeLimitBody(text) ==
  \/ Occurs(Str("context_length_exceeded"), text)
  \/ Occurs(Str("maximum context length"), text)

PrimarySizeRejection ==
  response # Idle /\ response.kind = "error" /\ SizeLimitBody(response.text)

----------------------------------------------------------------------------
(* C1: in both functions at most two requests are ever sent; the first names
   gpt-4-turbo with max_tokens 4000; a second one is sent only after the
   primary came back as an HTTP error whose body holds a size-limit phrase,
   and then exactly one more is sent, naming gpt-3.5-turbo with max_tokens
   2000; when the fallback reply is a success with a choice the function
   returns the text of its first choice; no reply to the fallback leads to a
   third request. *)
C1_OneFallbackAfterSizeRejection ==
  Analyzing =>
    /\ Len(sent) <= 2
    /\ Len(sent) >= 1 =>
         /\ sent[1].model = Str("gpt-4-turbo")
         /\ sent[1].max_tokens = 4000
    /\ Len(sent) = 2 =>
         /\ PrimarySizeRejection
         /\ sent[2].model = Str("gpt-3.5-turbo")
         /\ sent[2].max_tokens = 2000
    /\ PrimarySizeRejection => Len(sent) = 2
    /\ fallback_response # Idle => (pc = "done" /\ Len(sent) = 2)
    /\ ( /\ fallback_response # Idle
         /\ fallback_response.kind = "success"
         /\ fallback_response.choices # <<>> )
         => ret = Ok(fallback_response.choices[1].message.content)

\* The commit variant, size-rejected, returns the first of the two choices the
\* fallback reply holds.
C1_Witness ==
  /\ fn = "analyze_commit_with_openai"
  /\ pc = "done"
  /\ response = [kind |-> "error", text |-> Str("maximum context length is 8192")]
  /\ Len(sent) = 2
  /\ fallback_response # Idle
  /\ fallback_response.kind = "success"
  /\ Len(fallback_response.choices) = 2
  /\ ret = Ok(Str("R2"))

----------------------------------------------------------------------------
(* C2: when the primary comes back as an HTTP error whose body holds neither
   size-limit phrase, the function has returned a failure whose message ends
   with that body, having sent the one request and no other. *)
C2_OtherErrorIsTerminal ==
  ( /\ Analyzing
    /\ response # Idle
    /\ response.kind = "error"
    /\ ~SizeLimitBody(response.text) ) =>
      /\ pc = "done"
      /\ Len(sent) = 1
      /\ fallback_response = Idle
      /\ ret.tag = "Err"
      /\ ret = Err(request_failed(response.text))

\* An authentication failure.
C2_Witness ==
  /\ Analyzing
  /\ pc = "done"
  /\ response = [kind |-> "error", text |-> Str("invalid_api_key")]
  /\ Len(sent) = 1
  /\ ret = Err(request_failed(Str("invalid_api_key")))

----------------------------------------------------------------------------
(* C3: when the primary is size-rejected and the fallback then comes back as
   an HTTP error, the failure returned carries the body of the fallback reply,
   not that of the primary reply. *)
C3_FallbackErrorSurfaced ==
  ( /\ Analyzing
    /\ pc = "done"
    /\ PrimarySizeRejection
    /\ fallback_response # Idle
    /\ fallback_response.kind = "error" ) =>
      ret = Err(request_failed(fallback_response.text))

----------------------------------------------------------------------------
(* C4: a reply, primary or fallback, with a success status and no choice makes
   the function return the no-response failure, which carries no error body,
   and no request follows it. *)
C4_EmptySuccessIsNoResponse ==
  Analyzing =>
    /\ (response # Idle /\ response.kind = "success" /\ response.choices = <<>>)
         => (pc = "done" /\ ret = Err(no_response) /\ Len(sent) = 1)
    /\ ( /\ fallback_response # Idle
         /\ fallback_response.kind = "success"
         /\ fallback_response.choices = <<>> )
         => (pc = "done" /\ ret = Err(no_response) /\ Len(sent) = 2)

----------------------------------------------------------------------------
(* C5 as stated: with a budget of at least the header estimate, the estimate
   of the summary is at most the budget plus the estimate of the marker line. *)
C5_WithinBudgetPlusMarker ==
  (Summarized /\ args.max_tokens >= HeaderEstimate) =>
    /\ ret.tag = "value"
    /\ estimate_tokens(ret.value) <= args.max_tokens + estimate_tokens(truncation_marker)

(* C5 as amended: with a budget of at least the header estimate, the estimate
   of the summary is at most the budget plus the estimate of the marker line
   plus 1, the 1 being what the floor of other-chars / 4 can gain when header,
   body and marker are concatenated. *)
C5_WithinBudgetPlusMarkerPlusOne ==
  (Summarized /\ args.max_tokens >= HeaderEstimate) =>
    /\ ret.tag = "value"
    /\ estimate_tokens(ret.value)
         <= args.max_tokens + estimate_tokens(truncation_marker) + 1

\* Ten added lines and a budget one above the header estimate: one line fits,
\* the marker follows, and the estimate is the budget plus the marker plus 1.
C5_Witness ==
  /\ Summarized
  /\ args.diff_content = ManyAdded
  /\ args.max_tokens = HeaderEstimate + 1
  /\ ret.tag = "value"
  /\ ret.value = stats_header(ManyAdded) \o Str("+a\n") \o truncation_marker
  /\ estimate_tokens(ret.value)
       = args.max_tokens + estimate_tokens(truncation_marker) + 1

----------------------------------------------------------------------------
(* C6: with a budget of at most the header estimate, 0 and 1 included, and a
   diff that is not empty, the call returns, without a panic and without a
   wrapped subtraction, the header followed by the marker line and nothing
   else. *)
C6_DefensiveFloor ==
  (Summarized /\ args.max_tokens <= HeaderEstimate /\ args.diff_content # <<>>) =>
    ret = Value(stats_header(args.diff_content) \o truncation_marker)

----------------------------------------------------------------------------
(* C7 as stated: a diff with no boundary line comes back unchanged, char for
   char, also when it ends with a line ending or uses CR LF. *)
C7_UnchangedVerbatim ==
  (Filtered /\ NoBoundary(args.diff_content)) => ret.value = args.diff_content

(* C7 as amended: a diff with no boundary line loses no line: the result is
   its lines joined by LF, so it is the input itself when the input has no CR
   and does not end with LF, and otherwise the input with CR LF turned into LF
   and the final line ending removed. *)
C7_LinesUnchanged ==
  (Filtered /\ NoBoundary(args.diff_content)) =>
    /\ ret.value = join(lines(args.diff_content), <<LF>>)
    /\ (~HasCR(args.diff_content) /\ ~EndsWithLF(args.diff_content))
         => ret.value = args.diff_content

\* A boundary-free diff of two lines ending with a line ending: both lines
\* come back, the final line ending does not.
C7_Witness ==
  /\ Filtered
  /\ NoBoundary(args.diff_content)
  /\ args.diff_content = Str("+a\n+a\n")
  /\ ret.value = Str("+a\n+a")

----------------------------------------------------------------------------
(* C8 as stated: filtering the result again gives exactly the result. *)
C8_Idempotent ==
  Filtered => filter_large_generated_files(ret.value) = ret.value

(* C8 as amended: filtering the result again removes no line of it: the
   second result is the lines of the first joined by LF, which is the first
   result itself when that has no CR and does not end with LF (its last kept
   line is not empty), and the first result without its final LF otherwise. *)
C8_IdempotentOnLines ==
  Filtered =>
    /\ filter_large_generated_files(ret.value) = join(lines(ret.value), <<LF>>)
    /\ (~HasCR(ret.value) /\ ~EndsWithLF(ret.value))
         => filter_large_generated_files(ret.value) = ret.value

\* A kept section that ends with an empty line, before a dropped section: the
\* result ends with LF and the second pass removes it.
C8_Witness ==
  /\ Filtered
  /\ args.diff_content =
       Str("diff --git a/src/app.js b/src/app.js\n\ndiff --git a/package-lock.json b/package-lock.json\n")
  /\ ret.value = Str("diff --git a/src/app.js b/src/app.js\n")
  /\ filter_large_generated_files(ret.value) = Str("diff --git a/src/app.js b/src/app.js")

----------------------------------------------------------------------------
(* C9: the result is, in order and joined by LF, the lines before the first
   boundary line and the lines of every section whose boundary line has no
   fourth field or a fourth field that, with a leading b/ removed, is not
   excluded by should_skip_file; no line of an excluded section is in it. *)

\* The post-change path of a boundary line, or <<>> when it has no 4th field:
\* the field without its leading b/ (chars 98 and 47).
PostChangePath(line) ==
  LET fields == split_whitespace(line)
  IN  IF Len(fields) < 4 THEN <<>>
      ELSE IF starts_with(fields[4], <<98, 47>>)
           THEN SubSeq(fields[4], 3, Len(fields[4]))
           ELSE fields[4]

\* The lines of d that belong to no excluded section.
RetainedLines(d) ==
  LET ls == lines(d)
      boundary == [j \in DOMAIN ls |-> IsBoundary(ls[j])]
      excluded ==
        [j \in DOMAIN ls |-> boundary[j] /\ should_skip_file(PostChangePath(ls[j]))]
      Section(i) == {j \in 1..i : boundary[j]}
      Boundary(i) == CHOOSE j \in Section(i) : \A k \in Section(i) : k <= j
      retained == [i \in DOMAIN ls |-> Section(i) = {} \/ ~excluded[Boundary(i)]]
      kept == Sorted({i \in DOMAIN ls : retained[i]})
  IN  [k \in DOMAIN kept |-> ls[kept[k]]]

C9_RetainedSections ==
  Filtered => ret.value = join(RetainedLines(args.diff_content), <<LF>>)

\* Scenario A: package-lock.json and src/app.js; only the second is kept.
C9_Witness ==
  /\ Filtered
  /\ args.diff_content =
       Str("diff --git a/package-lock.json b/package-lock.json\n+a\ndiff --git a/src/app.js b/src/app.js\n")
  /\ ret.value = Str("diff --git a/src/app.js b/src/app.js")

----------------------------------------------------------------------------
(* C10: should_skip_file(path) is TRUE exactly when some pattern of the rule
   set occurs in path as a contiguous run of chars, compared char by char
   (so case-sensitively), at any position; it returns a boolean for every
   path. *)

C10_SkipIffSubstring ==
  (fn = "should_skip_file" /\ ret # Pending) =>
    /\ ret.tag = "value"
    /\ ret.value \in BOOLEAN
    /\ ret.value = (\E k \in DOMAIN skip_patterns : Occurs(skip_patterns[k], args.file_path))

\* A path that holds out/ only inside layout/ is excluded, and a path that
\* spells dist/ as Dist/ is not.
C10_Witness ==
  /\ fn = "should_skip_file"
  /\ ret = Value(TRUE)
  /\ args.file_path = Str("src/layout/x")
  /\ ~should_skip_file(Str("src/Dist/x"))

----------------------------------------------------------------------------
(* C11: the estimate of a text is the number of its chars from U+AC00 to
   U+D7A3, counted one by one, plus the largest q with 4 * q at most the
   number of its other chars; so it is never negative, it is 0 for the empty
   text, and it is the length of a text made of such chars only. *)
RECURSIVE DenseCount(_)
DenseCount(text) ==
  IF text = <<>> THEN 0
  ELSE (IF 44032 <= Head(text) /\ Head(text) <= 55203 THEN 1 ELSE 0)
         + DenseCount(Tail(text))

C11_EstimateFormula ==
  Estimated =>
    LET dense == DenseCount(args.text)
        other == Len(args.text) - dense
        q == ret.value - dense
    IN  /\ ret.tag = "value"
        /\ q >= 0 /\ 4 * q <= other /\ other < 4 * q + 4
        /\ ret.value >= 0
        /\ args.text = <<>> => ret.value = 0
        /\ dense = Len(args.text) => ret.value = Len(args.text)

\* One Hangul syllable among four other chars, one of them next to the range:
\* 1 + floor(4 / 4).
C11_Witness ==
  /\ Estimated
  /\ args.text = <<97, 44032, 55204, 128512, 97>>
  /\ ret = Value(2)

----------------------------------------------------------------------------
(* C12: the summary is the header, then the longest run of the first lines
   of the input, each ended by LF, whose estimate stays strictly below the
   budget minus the header estimate, then the marker line if and only if some
   line of the input was left out, and nothing after the marker; the call
   never fails, and for the empty input it returns the header with zero
   counts and nothing else. *)
RECURSIVE FirstLines(_, _)
FirstLines(ls, k) ==
  IF k = 0 THEN <<>> ELSE FirstLines(ls, k - 1) \o ls[k] \o <<LF>>

\* The header of a diff without files, added lines or removed lines.
ZeroHeader ==
  Str("=== ") \o <<53685, 44228>> \o Str(" ===\n")
    \o <<54028, 51068>> \o Str(" 0") \o <<44060>> \o Str(", +0 -0 ")
    \o <<46972, 51064>> \o Str("\n\n")

\* The first k lines stay below the bound, and k is the largest such number.
LongestBelow(ls, k, bound) ==
  /\ \A j \in 1..k : estimate_tokens(FirstLines(ls, j)) < bound
  /\ k < Len(ls) => ~(estimate_tokens(FirstLines(ls, k + 1)) < bound)

SummaryOfFirst(d, k) ==
  stats_header(d) \o FirstLines(lines(d), k)
    \o (IF k < Len(lines(d)) THEN truncation_marker ELSE <<>>)

C12_LongestPrefix ==
  Summarized =>
    /\ ret.tag = "value"
    /\ \E k \in 0..Len(lines(args.diff_content)) :
         /\ LongestBelow(lines(args.diff_content), k, args.max_tokens - HeaderEstimate)
         /\ ret.value = SummaryOfFirst(args.diff_content, k)
    /\ args.diff_content = <<>> => ret.value = ZeroHeader

\* The same for the budgets that are at least the header estimate: this much
\* of C12 the function does.
C12_LongestPrefixFromHeaderEstimate ==
  (Summarized /\ args.max_tokens >= HeaderEstimate) => C12_LongestPrefix

----------------------------------------------------------------------------
(* C13: whenever the estimate of the diff is above the budget, the call
   returns a summary whose last chars are the marker line, whatever the lines
   of the diff are. *)
EndsWithMarker(text) ==
  /\ Len(text) >= Len(truncation_marker)
  /\ SubSeq(text, Len(text) - Len(truncation_marker) + 1, Len(text)) = truncation_marker

OverBudget == estimate_tokens(args.diff_content) > args.max_tokens

C13_OverBudgetEndsWithMarker ==
  (Summarized /\ OverBudget) => (ret.tag = "value" /\ EndsWithMarker(ret.value))

\* The same for the budgets that are at least the header estimate and the
\* diffs without CR: this much of C13 the function does.
C13_OverBudgetEndsWithMarkerNoCR ==
  ( /\ Summarized
    /\ OverBudget
    /\ args.max_tokens >= HeaderEstimate
    /\ ~HasCR(args.diff_content) ) =>
      (ret.tag = "value" /\ EndsWithMarker(ret.value))

\* Lines ended by CR LF and a budget above the header estimate: the diff is
\* over the budget, its lines ended by LF alone are not, and the summary holds
\* them all and no marker.
C13_WholeWithoutMarker ==
  /\ Summarized
  /\ args = JustOverBudget(ManyCRLF)
  /\ args.max_tokens > HeaderEstimate
  /\ ret = Value(ZeroHeader \o [i \in 1..55 |-> LF])

----------------------------------------------------------------------------
(* C14: the first request of both functions holds the template of the
   function around a content that is the diff itself when the estimate of the
   diff is at most 120000 - 800 - 4000, and the summary of the diff for that
   budget when the estimate is above it. *)
ContentBudget == 120000 - 800 - 4000

PrimaryRequestContent == sent[1].messages[1].content

C14_PrimaryContent ==
  (Analyzing /\ Len(sent) >= 1) =>
    /\ Len(sent[1].messages) = 1
    /\ PrimaryRequestContent.template = fn
    /\ estimate_tokens(args.diff_content) <= ContentBudget
         => PrimaryRequestContent.content = args.diff_content
    /\ estimate_tokens(args.diff_content) > ContentBudget
         => Value(PrimaryRequestContent.content)
              = smart_summarize_diff(args.diff_content, ContentBudget)

\* A diff two above the budget: the request holds the header, the first line
\* and the marker.
C14_Witness ==
  /\ Analyzing
  /\ Len(sent) >= 1
  /\ args.diff_content = OverContentBudget
  /\ estimate_tokens(args.diff_content) = ContentBudget + 2
  /\ PrimaryRequestContent.content
       = stats_header(OverContentBudget) \o Str("+a\n") \o truncation_marker

----------------------------------------------------------------------------
(* C15 as stated, the ceiling being the budget the fallback summarizes with:
   the content of the fallback request is the summary, for the ceiling, of
   the content of the primary request when the estimate of that content is
   above the ceiling, and is that content itself otherwise; so its estimate
   is at most the ceiling plus the estimate of the marker line. *)
FallbackCeiling == 6000

FallbackRequestContent == sent[2].messages[1].content

C15_OneCeiling ==
  (Analyzing /\ Len(sent) = 2) =>
    /\ estimate_tokens(PrimaryRequestContent.content) > FallbackCeiling
         => Value(FallbackRequestContent.content)
              = smart_summarize_diff(PrimaryRequestContent.content, FallbackCeiling)
    /\ estimate_tokens(PrimaryRequestContent.content) <= FallbackCeiling
         => FallbackRequestContent.content = PrimaryRequestContent.content
    /\ estimate_tokens(FallbackRequestContent.content)
         <= FallbackCeiling + estimate_tokens(truncation_marker)

(* C15 as amended: the fallback has a threshold and a smaller budget. The
   content of the fallback request is the summary, for the budget 6000, of the
   content of the primary request when the estimate of that content is above
   8000, and is that content itself otherwise; so its estimate is at most
   6000 plus the estimate of the marker line plus 1 when it was summarized,
   and at most 8000 in every case. *)
FallbackThreshold == 8000

C15_ThresholdAndBudget ==
  (Analyzing /\ Len(sent) = 2) =>
    /\ Len(sent[2].messages) = 1
    /\ FallbackRequestContent.template = fn
    /\ estimate_tokens(PrimaryRequestContent.content) > FallbackThreshold
         => /\ Value(FallbackRequestContent.content)
                 = smart_summarize_diff(PrimaryRequestContent.content, FallbackCeiling)
            /\ estimate_tokens(FallbackRequestContent.content)
                 <= FallbackCeiling + estimate_tokens(truncation_marker) + 1
    /\ estimate_tokens(PrimaryRequestContent.content) <= FallbackThreshold
         => FallbackRequestContent.content = PrimaryRequestContent.content
    /\ estimate_tokens(FallbackRequestContent.content) <= FallbackThreshold

\* A diff two above the threshold went whole into the primary request; the
\* fallback request holds a new header, the first line and the marker.
C15_Witness ==
  /\ Analyzing
  /\ Len(sent) = 2
  /\ PrimaryRequestContent.content = OverFallbackThreshold
  /\ estimate_tokens(OverFallbackThreshold) = FallbackThreshold + 2
  /\ FallbackRequestContent.content
       = stats_header(OverFallbackThreshold) \o Str("+a\n") \o truncation_marker

\* A diff at the threshold is in the fallback request as it was in the primary
\* request, 2000 above the budget.
C15_UnchangedAboveBudget ==
  /\ Analyzing
  /\ Len(sent) = 2
  /\ FallbackRequestContent.content = AtFallbackThreshold
  /\ estimate_tokens(FallbackRequestContent.content) = FallbackCeiling + 2000

====
